---------------------------- MODULE Spec2Model ----------------------------
(***************************************************************************)
(* Model of the chat router of src/app.py: classify_intent, the entity     *)
(* extractors, the db_* queries, api_chat and submit_contact.              *)
(*                                                                         *)
(* Text is a sequence of one-character strings, so that strip, lower,      *)
(* title, the substring tests and the regular expressions of the source    *)
(* are computed character by character, as Python computes them.           *)
(***************************************************************************)
EXTENDS Integers, Sequences, FiniteSets, TLC

(***************************************************************************)
(* Characters and the str methods the source uses.                         *)
(***************************************************************************)
LowerAlpha ==
  <<"a","b","c","d","e","f","g","h","i","j","k","l","m",
    "n","o","p","q","r","s","t","u","v","w","x","y","z">>

UpperAlpha ==
  <<"A","B","C","D","E","F","G","H","I","J","K","L","M",
    "N","O","P","Q","R","S","T","U","V","W","X","Y","Z">>

LowerSet == {LowerAlpha[i] : i \in DOMAIN LowerAlpha}

UpperSet == {UpperAlpha[i] : i \in DOMAIN UpperAlpha}

ToLowerMap ==
  [c \in UpperSet |-> LowerAlpha[CHOOSE i \in DOMAIN UpperAlpha : UpperAlpha[i] = c]]

ToUpperMap ==
  [c \in LowerSet |-> UpperAlpha[CHOOSE i \in DOMAIN LowerAlpha : LowerAlpha[i] = c]]

\* the characters \s matches and str.strip() removes
IsSpace(c) == c \in {" ", "\t", "\n"}

IsLetter(c) == c \in LowerSet \/ c \in UpperSet

\* Python None and SQL NULL: a value no text is equal to
NULL == <<"NULL">>

SetMin(S) == CHOOSE x \in S : \A y \in S : x <= y

SetMax(S) == CHOOSE x \in S : \A y \in S : y <= x

\* the sequence of the n values f[1], ..., f[n], enumerated
AsSeq(f, n) == SubSeq(f, 1, n)

\* str.lower()
lower(s) ==
  AsSeq([i \in 1..Len(s) |-> IF s[i] \in UpperSet THEN ToLowerMap[s[i]] ELSE s[i]], Len(s))

\* str.strip()
strip(s) ==
  LET keep == {i \in 1..Len(s) : ~IsSpace(s[i])}
  IN  IF keep = {} THEN <<>> ELSE SubSeq(s, SetMin(keep), SetMax(keep))

\* str.title(): a letter that follows a non-letter is upper-cased, the
\* other letters are lower-cased
title(s) ==
  AsSeq([i \in 1..Len(s) |->
           IF ~IsLetter(s[i]) THEN s[i]
           ELSE IF i = 1 \/ ~IsLetter(s[i-1])
                THEN (IF s[i] \in LowerSet THEN ToUpperMap[s[i]] ELSE s[i])
                ELSE (IF s[i] \in UpperSet THEN ToLowerMap[s[i]] ELSE s[i])],
        Len(s))

\* Python truthiness of an optional string: None and "" are false
Truthy(x) == x # NULL /\ x # <<>>

\* x or y
Or(x, y) == IF Truthy(x) THEN x ELSE y

\* s[i:i+len(p)] == p
HasAt(s, p, i) ==
  /\ i >= 1
  /\ i + Len(p) - 1 <= Len(s)
  /\ \A k \in 1..Len(p) : s[i + k - 1] = p[k]

\* p in s
In(p, s) == \E i \in 1..(Len(s) - Len(p) + 1) : HasAt(s, p, i)

\* s.startswith(p)
startswith(s, p) == HasAt(s, p, 1)

RECURSIVE ReplaceFrom(_, _, _)
ReplaceFrom(s, old, i) ==
  IF i > Len(s) THEN <<>>
  ELSE IF HasAt(s, old, i) THEN ReplaceFrom(s, old, i + Len(old))
  ELSE <<s[i]>> \o ReplaceFrom(s, old, i + 1)

\* s.replace(old, "")
replace(s, old) == ReplaceFrom(s, old, 1)

\* s.split()[-1] of a text that has a non-blank character
LastWord(s) ==
  LET t  == strip(s)
      ws == {i \in 1..Len(t) : IsSpace(t[i])}
  IN  IF ws = {} THEN t ELSE SubSeq(t, SetMax(ws) + 1, Len(t))

RECURSIVE SubWs(_, _)
SubWs(s, i) ==
  IF i > Len(s) THEN <<>>
  ELSE IF IsSpace(s[i])
       THEN (IF i > 1 /\ IsSpace(s[i-1]) THEN <<>> ELSE <<" ">>) \o SubWs(s, i + 1)
       ELSE <<s[i]>> \o SubWs(s, i + 1)

\* re.sub(r"\s+", " ", (s or "").strip().lower())
norm(s) == SubWs(lower(strip(Or(s, <<>>))), 1)


(***************************************************************************)
(* The literals of the source, spelled as texts.                           *)
(***************************************************************************)
K_find == <<"f","i","n","d">>

K_search == <<"s","e","a","r","c","h">>

K_missing == <<"m","i","s","s","i","n","g">>

K_no == <<"n","o">>

K_office == <<"o","f","f","i","c","e">>

K_work == <<"w","o","r","k">>

K_private == <<"p","r","i","v","a","t","e">>

K_personal == <<"p","e","r","s","o","n","a","l">>

K_email == <<"e","m","a","i","l">>

K_public == <<"p","u","b","l","i","c">>

K_link == <<"l","i","n","k">>

K_phone == <<"p","h","o","n","e">>

K_number == <<"n","u","m","b","e","r">>

K_job == <<"j","o","b">>

K_title == <<"t","i","t","l","e">>

K_company == <<"c","o","m","p","a","n","y">>

K_industry == <<"i","n","d","u","s","t","r","y">>

K_of == <<"o","f">>

K_for == <<"f","o","r">>

K_under == <<"u","n","d","e","r">>

K_in == <<"i","n">>

K_category == <<"c","a","t","e","g","o","r","y">>

K_from == <<"f","r","o","m">>

K_at == <<"a","t">>


(***************************************************************************)
(* extract_industry, split_name and the inline extractions of api_chat.    *)
(***************************************************************************)
\* the character class [a-zA-Z &/-]
IndustryChar(c) == IsLetter(c) \/ c \in {" ", "&", "/", "-"}

\* the end of the maximal run of characters from position i on that P holds of
RECURSIVE SpaceRunEnd(_, _)
SpaceRunEnd(s, i) ==
  IF i <= Len(s) /\ IsSpace(s[i]) THEN SpaceRunEnd(s, i + 1) ELSE i - 1

RECURSIVE IndustryRunEnd(_, _)
IndustryRunEnd(s, i) ==
  IF i <= Len(s) /\ IndustryChar(s[i]) THEN IndustryRunEnd(s, i + 1) ELSE i - 1

\* (?:under|in|for|category) matched at position i: the position after it, or 0
IndustryWordEnd(s, i) ==
  IF HasAt(s, K_under, i) THEN i + Len(K_under)
  ELSE IF HasAt(s, K_in, i) THEN i + Len(K_in)
  ELSE IF HasAt(s, K_for, i) THEN i + Len(K_for)
  ELSE IF HasAt(s, K_category, i) THEN i + Len(K_category)
  ELSE 0

\* where group 1 of (?:under|in|for|category)\s+([a-zA-Z &/-]+) starts when
\* the expression is matched at position i, or 0: \s+ is greedy and gives
\* characters back until the class matches
IndustryGroupStart(s, i) ==
  LET j == IndustryWordEnd(s, i)
      e == SpaceRunEnd(s, j)
      c == {p \in (j + 1)..(e + 1) : p <= Len(s) /\ IndustryChar(s[p])}
  IN  IF j = 0 \/ e < j \/ c = {} THEN 0 ELSE SetMax(c)

extract_industry(message) ==
  LET s    == lower(message)
      hits == {i \in 1..Len(s) : IndustryGroupStart(s, i) # 0}
  IN  IF hits = {} THEN NULL
      ELSE LET g == IndustryGroupStart(s, SetMin(hits))
           IN  title(strip(SubSeq(s, g, IndustryRunEnd(s, g))))

\* the start of the maximal run of [a-z] that ends at position e (e + 1 if none)
RECURSIVE LowerRunStart(_, _)
LowerRunStart(s, e) ==
  IF e >= 1 /\ s[e] \in LowerSet THEN LowerRunStart(s, e - 1) ELSE e + 1

RECURSIVE SpaceRunStart(_, _)
SpaceRunStart(s, e) ==
  IF e >= 1 /\ IsSpace(s[e]) THEN SpaceRunStart(s, e - 1) ELSE e + 1

\* re.findall(r"[a-z]+", s), read from position i
RECURSIVE FindWords(_, _)
FindWords(s, i) ==
  IF i > Len(s) THEN <<>>
  ELSE IF s[i] \in LowerSet
       THEN LET e == CHOOSE k \in i..Len(s) :
                        /\ \A m \in i..k : s[m] \in LowerSet
                        /\ (k = Len(s) \/ s[k + 1] \notin LowerSet)
            IN  <<SubSeq(s, i, e)>> \o FindWords(s, e + 1)
       ELSE FindWords(s, i + 1)

\* the groups of (?:of|for)\s+([a-z]+)\s+([a-z]+)$ searched in t, or <<>>
NameMatch(t) ==
  LET b2 == LowerRunStart(t, Len(t))
      a2 == SpaceRunStart(t, b2 - 1)
      b1 == LowerRunStart(t, a2 - 1)
      a1 == SpaceRunStart(t, b1 - 1)
  IN  IF /\ b2 <= Len(t) /\ a2 < b2
         /\ b1 < a2 /\ a1 < b1
         /\ \/ HasAt(t, K_of, a1 - Len(K_of))
            \/ HasAt(t, K_for, a1 - Len(K_for))
      THEN <<SubSeq(t, b1, a2 - 1), SubSeq(t, b2, Len(t))>>
      ELSE <<>>

\* (first, last) or (None, None)
split_name(text) ==
  LET t     == norm(text)
      m     == NameMatch(t)
      parts == FindWords(t, 1)
  IN  IF m # <<>> THEN <<title(m[1]), title(m[2])>>
      ELSE IF Len(parts) >= 2
           THEN <<title(parts[Len(parts) - 1]), title(parts[Len(parts)])>>
           ELSE <<NULL, NULL>>

\* where group 1 of (?:from|at)\s+(.+)$ starts when matched at i, or 0
CompanyGroupStart(t, i) ==
  LET j == IF HasAt(t, K_from, i) THEN i + Len(K_from)
           ELSE IF HasAt(t, K_at, i) THEN i + Len(K_at) ELSE 0
      e == SpaceRunEnd(t, j)
  IN  IF j = 0 \/ e < j THEN 0
      ELSE IF e < Len(t) THEN e + 1
      ELSE IF e > j THEN e
      ELSE 0

\* company = (m.group(1).strip() if m else "").title()
extract_company(t) ==
  LET hits == {i \in 1..Len(t) : CompanyGroupStart(t, i) # 0}
  IN  IF hits = {} THEN <<>>
      ELSE title(strip(SubSeq(t, CompanyGroupStart(t, SetMin(hits)), Len(t))))

\* term = t.replace("find", "").replace("search", "").strip()
search_term(t) == strip(replace(replace(t, K_find), K_search))


(***************************************************************************)
(* The contact store: the rows of dbo.BusinessCards in insertion order,    *)
(* and the T-SQL the queries use.  A column holds a text or NULL.          *)
(***************************************************************************)
\* LTRIM(RTRIM(v)): T-SQL trims spaces only
RECURSIVE LTRIM(_)
LTRIM(v) == IF v # <<>> /\ Head(v) = " " THEN LTRIM(Tail(v)) ELSE v

RECURSIVE RTRIM(_)
RTRIM(v) ==
  IF v # <<>> /\ v[Len(v)] = " " THEN RTRIM(SubSeq(v, 1, Len(v) - 1)) ELSE v

\* [col] IS NULL OR LTRIM(RTRIM([col])) = ''
IsBlank(v) == v = NULL \/ LTRIM(RTRIM(v)) = <<>>

\* LOWER(a) = LOWER(b); a comparison with NULL is not true
SqlEqLower(a, b) == a # NULL /\ b # NULL /\ lower(a) = lower(b)

\* LOWER(a) LIKE '%' + kw + '%' for a keyword without wildcard characters
SqlLikeLower(a, kw) == a # NULL /\ In(lower(kw), lower(a))

\* CONCAT(a, ' ', b): NULL is concatenated as ''
CONCAT3(a, b) ==
  (IF a = NULL THEN <<>> ELSE a) \o <<" ">> \o (IF b = NULL THEN <<>> ELSE b)

\* the sort order of ORDER BY: case-insensitive, NULL first
Collation ==
  <<" ", "&", "-", ".", "/", "@", "0", "1", "2", "3", "4", "5", "6", "7", "8", "9">>
  \o LowerAlpha

CharRank ==
  [c \in {Collation[i] : i \in DOMAIN Collation} \cup UpperSet |->
     LET l == IF c \in UpperSet THEN ToLowerMap[c] ELSE c
     IN  CHOOSE i \in DOMAIN Collation : Collation[i] = l]

RankOf(c) == IF c \in DOMAIN CharRank THEN CharRank[c] ELSE 0

\* -1, 0 or 1 as text a sorts before, with or after text b, from position i
RECURSIVE TextCmpFrom(_, _, _)
TextCmpFrom(a, b, i) ==
  IF i > Len(a) THEN (IF i > Len(b) THEN 0 ELSE -1)
  ELSE IF i > Len(b) THEN 1
  ELSE IF RankOf(a[i]) < RankOf(b[i]) THEN -1
  ELSE IF RankOf(a[i]) > RankOf(b[i]) THEN 1
  ELSE TextCmpFrom(a, b, i + 1)

ValueCmp(a, b) ==
  IF a = NULL THEN (IF b = NULL THEN 0 ELSE -1)
  ELSE IF b = NULL THEN 1
  ELSE TextCmpFrom(a, b, 1)

\* the comparison of two ORDER BY keys (tuples of columns), from column i
RECURSIVE KeyCmpFrom(_, _, _)
KeyCmpFrom(ka, kb, i) ==
  IF i > Len(ka) THEN 0
  ELSE LET c == ValueCmp(ka[i], kb[i])
       IN  IF c # 0 THEN c ELSE KeyCmpFrom(ka, kb, i + 1)

\* the item x put at its place in a sequence of items that ascends by key
Insert(x, sorted) ==
  LET p == Cardinality({i \in 1..Len(sorted) : KeyCmpFrom(sorted[i].k, x.k, 1) <= 0})
  IN  SubSeq(sorted, 1, p) \o <<x>> \o SubSeq(sorted, p + 1, Len(sorted))

\* one order of the items of S that ascends by key
RECURSIVE Sorted(_)
Sorted(S) ==
  IF S = {} THEN <<>>
  ELSE LET x == CHOOSE y \in S : TRUE
       IN  Insert(x, Sorted(S \ {x}))

RECURSIVE Perms(_)
Perms(G) ==
  IF G = {} THEN {<<>>}
  ELSE UNION {{<<x>> \o p : p \in Perms(G \ {x})} : x \in G}

\* the last position of the run of items at the front of s, from position
\* i on, whose key equals the key of s[1]
RECURSIVE TieEnd(_, _)
TieEnd(s, i) ==
  IF i < Len(s) /\ KeyCmpFrom(s[i + 1].k, s[1].k, 1) = 0 THEN TieEnd(s, i + 1) ELSE i

\* every order of the items of the ascending sequence s that ascends by key
RECURSIVE TieOrders(_)
TieOrders(s) ==
  IF s = <<>> THEN {<<>>}
  ELSE LET g == TieEnd(s, 1)
       IN  {p \o q : p \in Perms({s[i] : i \in 1..g}),
                     q \in TieOrders(SubSeq(s, g + 1, Len(s)))}

\* ORDER BY over a set of items [k |-> key, ...]: every order of the items
\* that ascends by key; the order among equal keys is not defined by SQL
OrderBy(S) == TieOrders(Sorted(S))

\* TOP (n)
Top(n, rows) == IF Len(rows) <= n THEN rows ELSE SubSeq(rows, 1, n)

\* SELECT TOP (limit) cols FROM dbo.BusinessCards WHERE where ORDER BY key:
\* the set of row sequences the statement may return; where, key and cols
\* give, for each row of the table, the value of the WHERE condition, the
\* ORDER BY key and the selected columns
SelectRows(limit, where, key, cols) ==
  LET S == {[k |-> key[i], id |-> i] : i \in {j \in DOMAIN where : where[j]}}
  IN  {LET t == Top(limit, s)
       IN  AsSeq([i \in 1..Len(t) |-> cols[t[i].id]], Len(t))
       : s \in OrderBy(S)}

\* SELECT DISTINCT TOP (limit) col ... WHERE where ORDER BY col
SelectDistinct(limit, where, col) ==
  LET S == {[k |-> <<col[i]>>] : i \in {j \in DOMAIN where : where[j]}}
  IN  {LET t == Top(limit, s)
       IN  AsSeq([i \in 1..Len(t) |-> t[i].k[1]], Len(t))
       : s \in OrderBy(S)}

\* ORDER BY [Last Name], [First Name]
NameKey(r) == <<r.LastName, r.FirstName>>

\* LOWER(LTRIM(RTRIM(v))) = LOWER(?)
TrimmedEqLower(v, x) == SqlEqLower(IF v = NULL THEN NULL ELSE LTRIM(RTRIM(v)), x)

get_companies_by_industry(cards, industry, limit) ==
  SelectDistinct(limit,
    [i \in DOMAIN cards |->
       TrimmedEqLower(cards[i].Industry, industry) /\ ~IsBlank(cards[i].OfficeName)],
    [i \in DOMAIN cards |-> cards[i].OfficeName])

db_contacts_by_company(cards, company, limit) ==
  SelectRows(limit,
    [i \in DOMAIN cards |-> TrimmedEqLower(cards[i].OfficeName, company)],
    [i \in DOMAIN cards |-> NameKey(cards[i])],
    [i \in DOMAIN cards |->
       <<cards[i].FirstName, cards[i].LastName, cards[i].JobTitle, cards[i].OfficeEmail,
         cards[i].Industry>>])

db_contacts_by_industry(cards, industry, limit) ==
  SelectRows(limit,
    [i \in DOMAIN cards |-> TrimmedEqLower(cards[i].Industry, industry)],
    [i \in DOMAIN cards |-> NameKey(cards[i])],
    [i \in DOMAIN cards |->
       <<cards[i].FirstName, cards[i].LastName, cards[i].JobTitle, cards[i].OfficeName,
         cards[i].OfficeEmail, cards[i].Industry>>])

db_people_with_job_keyword(cards, keyword, limit) ==
  SelectRows(limit,
    [i \in DOMAIN cards |-> SqlLikeLower(cards[i].JobTitle, keyword)],
    [i \in DOMAIN cards |-> NameKey(cards[i])],
    [i \in DOMAIN cards |->
       <<cards[i].FirstName, cards[i].LastName, cards[i].JobTitle, cards[i].OfficeName>>])

\* SELECT TOP 1 column ... WHERE the name matches, without ORDER BY: the
\* values the statement may return (None when no row matches)
db_person_field(cards, first, last, column) ==
  LET hit == {i \in 1..Len(cards) :
                /\ SqlEqLower(cards[i].FirstName, first)
                /\ SqlEqLower(cards[i].LastName, last)}
  IN  IF hit = {} THEN {NULL} ELSE {cards[i][column] : i \in hit}

db_list_companies(cards, limit) ==
  SelectDistinct(limit,
    [i \in DOMAIN cards |-> ~IsBlank(cards[i].OfficeName)],
    [i \in DOMAIN cards |-> cards[i].OfficeName])

db_list_industries(cards, limit) ==
  SelectDistinct(limit,
    [i \in DOMAIN cards |-> ~IsBlank(cards[i].Industry)],
    [i \in DOMAIN cards |-> cards[i].Industry])

db_search_name(cards, term, limit) ==
  SelectRows(limit,
    [i \in DOMAIN cards |->
       \/ SqlLikeLower(cards[i].FirstName, term)
       \/ SqlLikeLower(cards[i].LastName, term)
       \/ SqlLikeLower(CONCAT3(cards[i].FirstName, cards[i].LastName), term)],
    [i \in DOMAIN cards |-> NameKey(cards[i])],
    [i \in DOMAIN cards |->
       <<cards[i].FirstName, cards[i].LastName, cards[i].JobTitle, cards[i].OfficeName,
         cards[i].OfficeEmail, cards[i].Industry>>])

\* the conditions table of db_missing: does the row satisfy the condition
\* of this field key
conditions(field, r) ==
  CASE field = "email"         -> IsBlank(r.OfficeEmail) /\ IsBlank(r.PrivateEmail)
    [] field = "office_email"  -> IsBlank(r.OfficeEmail)
    [] field = "private_email" -> IsBlank(r.PrivateEmail)
    [] field = "phone"         -> IsBlank(r.Number)
    [] field = "job"           -> IsBlank(r.JobTitle)
    [] field = "company"       -> IsBlank(r.OfficeName)
    [] field = "industry"      -> IsBlank(r.Industry)
    [] field = "publiclink"    -> IsBlank(r.PublicLink)
    [] field = "qrlink"        -> r.QRlink = NULL \/ r.QRlink = <<>>

MissingFieldKeys ==
  {"email", "office_email", "private_email", "phone", "job", "company", "industry",
   "publiclink", "qrlink"}

db_missing(cards, field, limit) ==
  IF field \notin MissingFieldKeys THEN {<<>>}
  ELSE SelectRows(limit,
         [i \in DOMAIN cards |-> conditions(field, cards[i])],
         [i \in DOMAIN cards |-> NameKey(cards[i])],
         [i \in DOMAIN cards |->
            <<cards[i].FirstName, cards[i].LastName, cards[i].JobTitle,
              cards[i].OfficeName>>])


(***************************************************************************)
(* classify_intent and the zero-shot classifier it falls back on.          *)
(***************************************************************************)
INTENT_LABELS ==
  <<"companies_by_industry", "contacts_by_company", "contacts_by_industry",
    "person_email", "person_job_title", "person_phone", "person_industry",
    "people_by_job_keyword", "list_companies", "list_industries", "search_name",
    "missing_fields">>

\* the confidences (in percent) the classifier may report for its top label
Scores == {40, 90}

\* what a call of zsc(user_msg, INTENT_LABELS, multi_label=False) may do:
\* return a result whose res["labels"][0] is one of the labels, or raise
ZscOutcomes == {INTENT_LABELS[i] : i \in DOMAIN INTENT_LABELS} \cup {"raise"}

\* the intent, the number of calls of zsc, and whether zsc raised; zr is
\* what zsc does if it is called (its top label; the score is not read)
classify_intent(user_msg, zr) ==
  LET t == norm(user_msg)
  IN  IF startswith(t, K_find \o <<" ">>) \/ startswith(t, K_search \o <<" ">>)
      THEN [intent |-> "search_name", zsc |-> 0, raised |-> FALSE]
      ELSE IF In(K_missing, t) \/ startswith(t, K_no \o <<" ">>)
      THEN [intent |-> "missing_fields", zsc |-> 0, raised |-> FALSE]
      ELSE IF zr = "raise"
      THEN [intent |-> "raise", zsc |-> 1, raised |-> TRUE]
      ELSE [intent |-> zr, zsc |-> 1, raised |-> FALSE]

(***************************************************************************)
(* Replies, and what one call of api_chat does besides replying: the       *)
(* statements it executed on the store (with what they returned), the      *)
(* calls of zsc, the connections it left open.                             *)
(***************************************************************************)
\* the reply text by its template (kind), the count it prints, the texts
\* it interpolates and its item lines
Reply(kind, n, texts, lines) ==
  [kind |-> kind, n |-> n, texts |-> texts, lines |-> lines]

\* the words the templates put in place of an empty value
NoJob == <<"No job">>

NoEmail == <<"No email">>

NoCompany == <<"No company">>

NotFound == <<"not found">>

Dash == <<"-">>

\* str(e) of the exceptions of the collaborators
ConnectError == <<"pyodbc.connect failed">>

ExecuteError == <<"cursor.execute failed">>

ZscError == <<"zero-shot pipeline failed">>

\* the number of item lines a listing shows: the slices [:20] and [:30]
ShownItems == 20

ShownListed == 30

\* the default limits of the db_* functions
ListLimit == 200

LookupLimit == 50

\* one statement on the store, as the store saw it: the db_* function, its
\* arguments, whether cursor.execute returned, and what the function
\* returned: the number of rows of a list, or the value of a lookup
Listed(fn, args, rows) ==
  [fn |-> fn, args |-> args, ok |-> TRUE, rows |-> Len(rows), value |-> NULL]

Looked(fn, args, value) ==
  [fn |-> fn, args |-> args, ok |-> TRUE, rows |-> 0, value |-> value]

FailedCall(fn, args) == [fn |-> fn, args |-> args, ok |-> FALSE, rows |-> 0, value |-> NULL]

\* The outcome of a request: the reply and the HTTP status, the statements
\* the store saw, the number of calls of zsc, the connections left open,
\* str(e) of the exception raised inside the try block (<<>> when none
\* was), and whether an exception left api_chat.
\* return jsonify({"reply": reply})
Return(reply, calls, z) ==
  [reply |-> reply, status |-> 200, calls |-> calls, zsc |-> z, leaked |-> 0,
   error |-> <<>>, escaped |-> FALSE]

\* an exception that leaves api_chat: no reply
Escapes(e, calls, z, leaked) ==
  [reply |-> Reply("none", 0, <<e>>, <<>>), status |-> 500, calls |-> calls, zsc |-> z,
   leaked |-> leaked, error |-> e, escaped |-> TRUE]

\* except Exception as e: return jsonify({"reply": f"Server error: {str(e)}"}), 500
Caught(e, calls, z, leaked) ==
  [reply |-> Reply("server_error", 0, <<e>>, <<>>), status |-> 500, calls |-> calls,
   zsc |-> z, leaked |-> leaked, error |-> e, escaped |-> FALSE]

\* the faults of the store: the at-th statement of the request fails, in
\* pyodbc.connect (no connection is opened) or in cursor.execute (conn.close()
\* is skipped: the connection is closed only if the interpreter finalises
\* the abandoned connection object before the reply is returned, which the
\* language leaves open)
NoFault == [at |-> 0, how |-> "none", finalised |-> TRUE]

Faults ==
  {NoFault}
  \cup {[at |-> k, how |-> "connect", finalised |-> TRUE] : k \in {1, 2}}
  \cup {[at |-> k, how |-> "execute", finalised |-> f] : k \in {1, 2}, f \in BOOLEAN}

\* the db_* function raising at its statement, after the statements `calls`
DbRaise(fault, calls, fn, args, z) ==
  IF fault.how = "connect"
  THEN Caught(ConnectError, calls, z, 0)
  ELSE Caught(ExecuteError, Append(calls, FailedCall(fn, args)), z,
              IF fault.finalised THEN 0 ELSE 1)


(***************************************************************************)
(* api_chat: each branch of the intent routing gives the set of outcomes   *)
(* the request may have (a query without a defined order may return its    *)
(* rows in more than one order).                                           *)
(***************************************************************************)
\* the first n of the formatted lines: [... for r in rows[:n]]
Lines(lines, n) ==
  LET shown == IF Len(lines) <= n THEN Len(lines) ELSE n
  IN  AsSeq([i \in 1..shown |-> lines[i]], shown)

\* industry = extract_industry(user_msg) or user_msg.split()[-1].title()
industry_of(user_msg) == Or(extract_industry(user_msg), title(LastWord(user_msg)))

companies_by_industry(cards, user_msg, z, fault) ==
  LET industry == industry_of(user_msg)
  IN  IF fault.at = 1
      THEN {DbRaise(fault, <<>>, "get_companies_by_industry", <<industry>>, z)}
      ELSE {LET calls == <<Listed("get_companies_by_industry", <<industry>>, companies)>>
            IN  IF companies = <<>>
                THEN Return(Reply("no_companies_under", 0, <<industry>>, <<>>), calls, z)
                ELSE Return(Reply("companies_in", Len(companies), <<industry>>,
                                  Lines([i \in DOMAIN companies |-> <<companies[i]>>], ShownItems)),
                            calls, z)
            : companies \in get_companies_by_industry(cards, industry, ListLimit)}

contacts_by_company(cards, t, z, fault) ==
  LET company == extract_company(t)
  IN  IF company = <<>>
      THEN {Return(Reply("which_company", 0, <<>>, <<>>), <<>>, z)}
      ELSE IF fault.at = 1
      THEN {DbRaise(fault, <<>>, "db_contacts_by_company", <<company>>, z)}
      ELSE {LET calls == <<Listed("db_contacts_by_company", <<company>>, rows)>>
            IN  IF rows = <<>>
                THEN Return(Reply("no_contacts_for", 0, <<company>>, <<>>), calls, z)
                ELSE Return(Reply("contacts_from", 0, <<company>>,
                                  Lines([i \in DOMAIN rows |->
                                           <<rows[i][1], rows[i][2], Or(rows[i][3], NoJob),
                                             Or(rows[i][4], NoEmail)>>],
                                        ShownItems)),
                            calls, z)
            : rows \in db_contacts_by_company(cards, company, LookupLimit)}

contacts_by_industry(cards, user_msg, z, fault) ==
  LET industry == industry_of(user_msg)
  IN  IF fault.at = 1
      THEN {DbRaise(fault, <<>>, "db_contacts_by_industry", <<industry>>, z)}
      ELSE {LET calls == <<Listed("db_contacts_by_industry", <<industry>>, rows)>>
            IN  IF rows = <<>>
                THEN Return(Reply("no_contacts_in", 0, <<industry>>, <<>>), calls, z)
                ELSE Return(Reply("contacts_in", 0, <<industry>>,
                                  Lines([i \in DOMAIN rows |->
                                           <<rows[i][1], rows[i][2], Or(rows[i][3], NoJob),
                                             Or(rows[i][4], NoCompany)>>],
                                        ShownItems)),
                            calls, z)
            : rows \in db_contacts_by_industry(cards, industry, LookupLimit)}

wants_office(t) == In(K_office, t) \/ In(K_work, t)

wants_private(t) == In(K_private, t) \/ In(K_personal, t)

\* the reply of the revision that is commented out below api_chat: without
\* a qualifier, a lone office (private) email is reported as "office
\* (private) email is", not as both
email_reply_old(first, last, t, office_email, private_email) ==
  IF wants_office(t)
  THEN Reply("office_email", 0, <<first, last, Or(office_email, NotFound)>>, <<>>)
  ELSE IF wants_private(t)
  THEN Reply("private_email", 0, <<first, last, Or(private_email, NotFound)>>, <<>>)
  ELSE IF Truthy(office_email) /\ Truthy(private_email)
  THEN Reply("both_emails", 0, <<office_email, private_email>>, <<>>)
  ELSE IF Truthy(office_email)
  THEN Reply("office_email", 0, <<first, last, office_email>>, <<>>)
  ELSE IF Truthy(private_email)
  THEN Reply("private_email", 0, <<first, last, private_email>>, <<>>)
  ELSE Reply("no_email_found", 0, <<first, last>>, <<>>)

\* the reply of person_email once both lookups have returned
email_reply(first, last, t, office_email, private_email) ==
  IF wants_office(t)
  THEN Reply("office_email", 0, <<first, last, Or(office_email, NotFound)>>, <<>>)
  ELSE IF wants_private(t)
  THEN Reply("private_email", 0, <<first, last, Or(private_email, NotFound)>>, <<>>)
  ELSE IF Truthy(office_email) \/ Truthy(private_email)
  THEN Reply("both_emails", 0, <<Or(office_email, Dash), Or(private_email, Dash)>>, <<>>)
  ELSE Reply("no_email_found", 0, <<first, last>>, <<>>)

person_email(cards, first, last, t, z, fault) ==
  IF fault.at = 1
  THEN {DbRaise(fault, <<>>, "db_person_field", <<first, last, <<"[Office Email]">>>>, z)}
  ELSE UNION {
    LET call1 == Looked("db_person_field", <<first, last, <<"[Office Email]">>>>,
                        office_email)
    IN  IF fault.at = 2
        THEN {DbRaise(fault, <<call1>>, "db_person_field",
                      <<first, last, <<"[Private Email]">>>>, z)}
        ELSE {Return(email_reply(first, last, t, office_email, private_email),
                     <<call1, Looked("db_person_field",
                                     <<first, last, <<"[Private Email]">>>>,
                                     private_email)>>,
                     z)
              : private_email \in db_person_field(cards, first, last, "PrivateEmail")}
    : office_email \in db_person_field(cards, first, last, "OfficeEmail")}

\* the three lookups of one column: the column of the store, its SQL name
\* and the template of the reply
person_field(cards, first, last, column, column_sql, kind, z, fault) ==
  IF fault.at = 1
  THEN {DbRaise(fault, <<>>, "db_person_field", <<first, last, <<column_sql>>>>, z)}
  ELSE {Return(Reply(kind, 0, <<first, last, Or(v, NotFound)>>, <<>>),
               <<Looked("db_person_field", <<first, last, <<column_sql>>>>, v)>>, z)
        : v \in db_person_field(cards, first, last, column)}

person_lookup(cards, user_msg, t, intent, z, fault) ==
  LET name  == split_name(user_msg)
      first == name[1]
      last  == name[2]
  IN  IF ~Truthy(first) \/ ~Truthy(last)
      THEN {Return(Reply("who_is_the_person", 0, <<>>, <<>>), <<>>, z)}
      ELSE IF intent = "person_email"
      THEN person_email(cards, first, last, t, z, fault)
      ELSE IF intent = "person_job_title"
      THEN person_field(cards, first, last, "JobTitle", "[Job Title]", "job_title", z, fault)
      ELSE IF intent = "person_phone"
      THEN person_field(cards, first, last, "Number", "[Number]", "number", z, fault)
      ELSE person_field(cards, first, last, "Industry", "[Industry]", "is_in", z, fault)

list_companies(cards, z, fault) ==
  IF fault.at = 1
  THEN {DbRaise(fault, <<>>, "db_list_companies", <<>>, z)}
  ELSE {Return(Reply("companies", 0, <<>>, Lines([i \in DOMAIN comps |-> <<comps[i]>>], ShownListed)),
               <<Listed("db_list_companies", <<>>, comps)>>, z)
        : comps \in db_list_companies(cards, ListLimit)}

list_industries(cards, z, fault) ==
  IF fault.at = 1
  THEN {DbRaise(fault, <<>>, "db_list_industries", <<>>, z)}
  ELSE {Return(Reply("industries", 0, <<>>, Lines([i \in DOMAIN inds |-> <<inds[i]>>], ShownListed)),
               <<Listed("db_list_industries", <<>>, inds)>>, z)
        : inds \in db_list_industries(cards, ListLimit)}

search_name(cards, t, z, fault) ==
  LET term == search_term(t)
  IN  IF fault.at = 1
      THEN {DbRaise(fault, <<>>, "db_search_name", <<term>>, z)}
      ELSE {LET calls == <<Listed("db_search_name", <<term>>, rows)>>
            IN  IF rows = <<>>
                THEN Return(Reply("no_contacts_for", 0, <<term>>, <<>>), calls, z)
                ELSE Return(Reply("matches", Len(rows), <<>>,
                                  Lines([i \in DOMAIN rows |->
                                           <<rows[i][1], rows[i][2], Or(rows[i][3], NoJob),
                                             Or(rows[i][4], NoCompany)>>],
                                        ShownItems)),
                            calls, z)
            : rows \in db_search_name(cards, term, LookupLimit)}

\* rows = db_missing(field); reply f"{len(rows)} contacts are missing ..."
missing_count(cards, field, kind, z, fault) ==
  IF fault.at = 1
  THEN {DbRaise(fault, <<>>, "db_missing", <<<<field>>>>, z)}
  ELSE {Return(Reply(kind, Len(rows), <<>>, <<>>),
               <<Listed("db_missing", <<<<field>>>>, rows)>>, z)
        : rows \in db_missing(cards, field, ListLimit)}

\* the chain of tests of the missing_fields branch, in the order of the source
missing_fields(cards, t, z, fault) ==
  IF In(K_public, t) /\ In(K_link, t)
  THEN missing_count(cards, "publiclink", "missing_publiclink", z, fault)
  ELSE IF In(K_email, t)
  THEN missing_count(cards, "email", "missing_both_emails", z, fault)
  ELSE IF In(K_office, t) /\ In(K_email, t)
  THEN missing_count(cards, "office_email", "missing_office_email", z, fault)
  ELSE IF In(K_private, t) /\ In(K_email, t)
  THEN missing_count(cards, "private_email", "missing_private_email", z, fault)
  ELSE IF In(K_phone, t) \/ In(K_number, t)
  THEN missing_count(cards, "phone", "missing_phone", z, fault)
  ELSE IF In(K_job, t) \/ In(K_title, t)
  THEN missing_count(cards, "job", "missing_job", z, fault)
  ELSE IF In(K_company, t)
  THEN missing_count(cards, "company", "missing_company", z, fault)
  ELSE IF In(K_industry, t)
  THEN missing_count(cards, "industry", "missing_industry", z, fault)
  ELSE {Return(Reply("missing_what", 0, <<>>, <<>>), <<>>, z)}

\* the routing on the intent, from line 403 to the fallback reply
dispatch(cards, user_msg, t, intent, z, fault) ==
  IF intent = "companies_by_industry" THEN companies_by_industry(cards, user_msg, z, fault)
  ELSE IF intent = "contacts_by_company" THEN contacts_by_company(cards, t, z, fault)
  ELSE IF intent = "contacts_by_industry" THEN contacts_by_industry(cards, user_msg, z, fault)
  ELSE IF intent \in {"person_email", "person_job_title", "person_phone", "person_industry"}
  THEN person_lookup(cards, user_msg, t, intent, z, fault)
  ELSE IF intent = "list_companies" THEN list_companies(cards, z, fault)
  ELSE IF intent = "list_industries" THEN list_industries(cards, z, fault)
  ELSE IF intent = "search_name" THEN search_name(cards, t, z, fault)
  ELSE IF intent = "missing_fields" THEN missing_fields(cards, t, z, fault)
  ELSE {Return(Reply("try", 0, <<>>, <<>>), <<>>, z)}

\* api_chat without the test of the empty message
api_chat_unguarded(cards, message, zr, fault) ==
  LET user_msg == strip(Or(message, <<>>))
      c        == classify_intent(user_msg, zr)
  IN  IF c.raised THEN {Caught(ZscError, <<>>, c.zsc, 0)}
      ELSE dispatch(cards, user_msg, norm(user_msg), c.intent, c.zsc, fault)

\* the outcomes of one POST /api/chat with this message, when zsc would do zr
\* and the store has this fault
api_chat(cards, message, zr, fault) ==
  LET user_msg == strip(Or(message, <<>>))
  IN  IF user_msg = <<>>
      THEN {Return(Reply("ask_me_something", 0, <<>>, <<>>), <<>>, 0)}
      ELSE LET c == classify_intent(user_msg, zr)
           IN  IF c.raised THEN {Caught(ZscError, <<>>, c.zsc, 0)}
               ELSE dispatch(cards, user_msg, norm(user_msg), c.intent, c.zsc, fault)


(***************************************************************************)
(* The texts of the store and of the requests.                             *)
(***************************************************************************)
T_Rachel == <<"R","a","c","h","e","l">>

T_Sim == <<"S","i","m">>

T_rachel == <<"r","a","c","h","e","l">>

T_sim == <<"s","i","m">>

T_Adam == <<"A","d","a","m">>

T_Tan == <<"T","a","n">>

T_Manager == <<"M","a","n","a","g","e","r">>

T_Nurse == <<"N","u","r","s","e">>

T_office_mail == <<"r","a","c","h","e","l","@","m","p",".","c","o">>

T_private_mail == <<"r","s","@","h","o","m","e">>

T_Megapixel == <<"M","e","g","a","p","i","x","e","l">>

T_Technology == <<"T","e","c","h","n","o","l","o","g","y">>

T_Healthcare == <<"H","e","a","l","t","h","c","a","r","e">>

T_phone == <<"9","1","2","3">>

\* "  \t": a message of white space only
M_blank == <<" "," ","\t">>

\* "find rachel"
M_find_rachel == <<"f","i","n","d"," ","r","a","c","h","e","l">>

\* "find find": a search without a term
M_find_find == <<"f","i","n","d"," ","f","i","n","d">>

\* "missing office email"
M_missing_office_email == <<"m","i","s","s","i","n","g"," ","o","f","f","i","c","e"," ","e","m","a","i","l">>

\* "missing private email"
M_missing_private_email == <<"m","i","s","s","i","n","g"," ","p","r","i","v","a","t","e"," ","e","m","a","i","l">>

\* "missing email"
M_missing_email == <<"m","i","s","s","i","n","g"," ","e","m","a","i","l">>

\* "missing public link"
M_missing_public_link == <<"m","i","s","s","i","n","g"," ","p","u","b","l","i","c"," ","l","i","n","k">>

\* "missing qr link"
M_missing_qr_link == <<"m","i","s","s","i","n","g"," ","q","r"," ","l","i","n","k">>

\* "missing": a missing-field request that names no field
M_missing == <<"m","i","s","s","i","n","g">>

\* "no phone"
M_no_phone == <<"n","o"," ","p","h","o","n","e">>

\* "email of Rachel Sim"
M_email_of_rachel_sim == <<"e","m","a","i","l"," ","o","f"," ","R","a","c","h","e","l"," ","S","i","m">>

\* "Private email for Rachel  Sim"
M_private_email == <<"P","r","i","v","a","t","e"," ","e","m","a","i","l"," ","f","o","r"," ","R","a","c","h","e","l"," "," ","S","i","m">>

\* "work and personal email of rachel sim": both qualifiers
M_work_personal == <<"w","o","r","k"," ","a","n","d"," ","p","e","r","s","o","n","a","l"," ","e","m","a","i","l"," ","o","f"," ","r","a","c","h","e","l"," ","s","i","m">>

\* "people in Healthcare"
M_people_in_healthcare == <<"p","e","o","p","l","e"," ","i","n"," ","H","e","a","l","t","h","c","a","r","e">>

\* "more": one word: no name, no company and no industry can be extracted
M_more == <<"m","o","r","e">>

\* "list companies"
M_list_companies == <<"l","i","s","t"," ","c","o","m","p","a","n","i","e","s">>

\* "show contacts from Megapixel"
M_contacts_from == <<"s","h","o","w"," ","c","o","n","t","a","c","t","s"," ","f","r","o","m"," ","M","e","g","a","p","i","x","e","l">>

\* the message texts of the requests; NULL is a body without "message"
Messages ==
  {NULL, M_blank,
   M_find_rachel,
   M_find_find,
   M_missing_office_email,
   M_missing_private_email,
   M_missing_email,
   M_missing_public_link,
   M_missing_qr_link,
   M_missing,
   M_no_phone,
   M_email_of_rachel_sim,
   M_private_email,
   M_work_personal,
   M_people_in_healthcare,
   M_more,
   M_list_companies,
   M_contacts_from}

\* the number of Healthcare contacts of the filled store: more than one page
NBig == 21

ContactFields ==
  {"FirstName", "LastName", "JobTitle", "OfficeEmail", "PrivateEmail", "OfficeName",
   "Number", "Industry", "PublicLink", "QRlink"}

\* the i-th Healthcare contact: names and companies are pairwise distinct,
\* some columns are empty
BigRow(i) ==
  [FirstName    |-> <<UpperAlpha[i], "a">>,
   LastName     |-> <<UpperAlpha[NBig + 1 - i], "e", "e">>,
   JobTitle     |-> IF i % 2 = 0 THEN T_Nurse ELSE NULL,
   OfficeEmail  |-> IF i % 3 = 0 THEN NULL ELSE <<LowerAlpha[i], "@", "h">>,
   PrivateEmail |-> IF i % 5 = 0 THEN <<" ">> ELSE NULL,
   OfficeName   |-> <<UpperAlpha[i], "c", "o">>,
   Number       |-> IF i % 4 = 0 THEN NULL ELSE T_phone,
   Industry     |-> T_Healthcare,
   PublicLink   |-> NULL,
   QRlink       |-> NULL]

\* Rachel Sim, with an office email only
RachelSim ==
  [FirstName    |-> T_Rachel,
   LastName     |-> T_Sim,
   JobTitle     |-> T_Manager,
   OfficeEmail  |-> T_office_mail,
   PrivateEmail |-> NULL,
   OfficeName   |-> T_Megapixel,
   Number       |-> T_phone,
   Industry     |-> T_Technology,
   PublicLink   |-> NULL,
   QRlink       |-> NULL]

FilledStore ==
  AsSeq([i \in 1..(NBig + 1) |-> IF i <= NBig THEN BigRow(i) ELSE RachelSim], NBig + 1)

\* the JSON bodies posted to /submit-contact: a second card of Rachel Sim
\* with a private email only, and a card with nothing but a name
SubmitBodies ==
  {[firstName |-> T_rachel, lastName |-> T_sim, jobTitle |-> NULL, officeEmail |-> <<>>,
    privateEmail |-> T_private_mail, officeName |-> T_Megapixel, phoneNumber |-> NULL,
    industry |-> T_Technology \o <<" ">>]}

\* the number of contacts submitted in one behaviour
MaxInserts == 1

\* the row INSERT INTO dbo.BusinessCards (...) VALUES (?, ?, ?, ?, ?, ?, ?, ?) adds
InsertedRow(data) ==
  [FirstName    |-> data.firstName,
   LastName     |-> data.lastName,
   JobTitle     |-> data.jobTitle,
   OfficeEmail  |-> data.officeEmail,
   PrivateEmail |-> data.privateEmail,
   OfficeName   |-> data.officeName,
   Number       |-> data.phoneNumber,
   Industry     |-> data.industry,
   PublicLink   |-> NULL,
   QRlink       |-> NULL]

InitStores == {<<>>, FilledStore}

\* the stores with up to n submitted contacts
RECURSIVE StoresAfter(_)
StoresAfter(n) ==
  IF n = 0 THEN InitStores
  ELSE LET S == StoresAfter(n - 1)
       IN  S \cup {Append(st, InsertedRow(data)) : st \in S, data \in SubmitBodies}

Stores == StoresAfter(MaxInserts)

\* what zsc may do on this message: nothing is drawn when classify_intent
\* settles the intent by a rule
ZscDraws(message) ==
  IF classify_intent(strip(Or(message, <<>>)), "raise").zsc = 0
  THEN {"unasked"}
  ELSE ZscOutcomes

ZscDrawsTable == [message \in Messages |-> ZscDraws(message)]

\* api_chat tabulated over the inputs of the model, so that the texts are
\* scanned once and not once per state: the outcomes of a request on this
\* store with this message when zsc does zr, under every fault of the store
Outcomes ==
  [st \in Stores |->
    [message \in Messages |->
      [zr \in ZscDrawsTable[message] |->
        UNION {api_chat(st, message, zr, fault) : fault \in Faults}]]]

(***************************************************************************)
(* The state: the store, and the last request to /api/chat (its message    *)
(* and what zsc answered, if asked) with its outcome; and pend, a person_email request that is   *)
(* between its two lookups, with the office email the first one returned.  *)
(***************************************************************************)
VARIABLES store, inserted, req, out, pend

vars == <<store, inserted, req, out, pend>>

NoRequest == [message |-> NULL, label |-> "unasked", score |-> 0]

NoOutcome ==
  [reply |-> Reply("none", 0, <<>>, <<>>), status |-> 0, calls |-> <<>>, zsc |-> 0,
   leaked |-> 0, error |-> <<>>, escaped |-> FALSE]

\* no request is between its lookups
NoPending == [busy |-> FALSE, message |-> NULL, office |-> NULL]

Init ==
  /\ store \in InitStores
  /\ inserted = 0
  /\ req = NoRequest
  /\ out = NoOutcome
  /\ pend = NoPending

\* POST /api/chat of a handler that saves, as a new contact, the name or
\* the company it was asked for and did not find
ApiChatSaving ==
  \E st \in {store}, message \in Messages :
    \E zr \in ZscDrawsTable[message] :
      \E o \in Outcomes[st][message][zr] :
        \E score \in IF o.zsc = 0 \/ zr = "raise" THEN {0} ELSE Scores :
          /\ req' = [message |-> message,
                     label   |-> IF o.zsc = 0 THEN "unasked" ELSE zr,
                     score   |-> score]
          /\ out' = o
          /\ pend' = pend
          /\ IF o.reply.kind = "no_contacts_for" /\ inserted < MaxInserts
             THEN /\ \E data \in SubmitBodies : store' = Append(store, InsertedRow(data))
                  /\ inserted' = inserted + 1
             ELSE UNCHANGED <<store, inserted>>

\* POST /api/chat
ApiChat ==
  \E st \in {store}, message \in Messages :
    \E zr \in ZscDrawsTable[message] :
      \E o \in Outcomes[st][message][zr] :
        \E score \in IF o.zsc = 0 \/ zr = "raise" THEN {0} ELSE Scores :
          /\ req' = [message |-> message,
                     label   |-> IF o.zsc = 0 THEN "unasked" ELSE zr,
                     score   |-> score]
          /\ out' = o
          /\ UNCHANGED <<store, inserted, pend>>

\* POST /submit-contact: the insert; when connect or execute raises, the
\* reply is a 500 and the store is as before
SubmitContact ==
  \E data \in SubmitBodies, how \in {"none", "connect", "execute"} :
    /\ inserted < MaxInserts
    /\ IF how = "none"
       THEN /\ store' = Append(store, InsertedRow(data))
            /\ inserted' = inserted + 1
       ELSE UNCHANGED <<store, inserted>>
    /\ UNCHANGED <<req, out, pend>>

Next == ApiChat \/ SubmitContact

Spec == Init /\ [][Next]_vars

(***************************************************************************)
(* The person_email request in the steps of its two statements on the      *)
(* store, which requests to /submit-contact served by other threads may    *)
(* come between.                                                           *)
(***************************************************************************)
\* POST /api/chat with a message zsc labels person_email and that holds a
\* name, up to office_email = db_person_field(first, last, "[Office Email]")
EmailFirstLookup ==
  /\ ~pend.busy
  /\ \E message \in Messages :
       LET user_msg == strip(Or(message, <<>>))
           name     == split_name(user_msg)
       IN  /\ user_msg # <<>>
           /\ classify_intent(user_msg, "person_email").zsc = 1
           /\ Truthy(name[1]) /\ Truthy(name[2])
           /\ \E office_email \in db_person_field(store, name[1], name[2], "OfficeEmail") :
                pend' = [busy |-> TRUE, message |-> message, office |-> office_email]
  /\ UNCHANGED <<store, inserted, req, out>>

\* the rest of that request: private_email = db_person_field(first, last,
\* "[Private Email]") and the reply
EmailSecondLookup ==
  /\ pend.busy
  /\ LET user_msg == strip(Or(pend.message, <<>>))
         name     == split_name(user_msg)
         first    == name[1]
         last     == name[2]
     IN  \E private_email \in db_person_field(store, first, last, "PrivateEmail"),
            score \in Scores :
           /\ out' = Return(email_reply(first, last, norm(user_msg), pend.office,
                                        private_email),
                            <<Looked("db_person_field",
                                     <<first, last, <<"[Office Email]">>>>, pend.office),
                              Looked("db_person_field",
                                     <<first, last, <<"[Private Email]">>>>,
                                     private_email)>>,
                            1)
           /\ req' = [message |-> pend.message,
                      label   |-> "person_email",
                      score   |-> score]
  /\ pend' = NoPending
  /\ UNCHANGED <<store, inserted>>

(***************************************************************************)
(* The requests to /api/chat on a store that does not change meanwhile:    *)
(* any of the stores /submit-contact can have filled.                      *)
(***************************************************************************)
ChatInit ==
  /\ \E n \in 0..MaxInserts :
       /\ store \in StoresAfter(n)
       /\ n > 0 => store \notin StoresAfter(n - 1)
       /\ inserted = n
  /\ req = NoRequest
  /\ out = NoOutcome
  /\ pend = NoPending

ChatSpec == ChatInit /\ [][ApiChat]_vars

ConcNext == EmailFirstLookup \/ EmailSecondLookup \/ SubmitContact

ConcSpec == Init /\ [][ConcNext]_vars

(***************************************************************************)
(* What the last request shows.                                            *)
(***************************************************************************)
\* a request to /api/chat has been handled
Responded == out.status # 0

\* the request ran to its return statement: no collaborator raised
Served == Responded /\ out.error = <<>>

\* the message as api_chat reads it, and its normalised form
UserMsg == strip(Or(req.message, <<>>))

NormMsg == norm(UserMsg)

\* the intent the request was routed on
Intent ==
  IF UserMsg = <<>> THEN "none" ELSE classify_intent(UserMsg, req.label).intent

Labels == {INTENT_LABELS[i] : i \in DOMAIN INTENT_LABELS}

\* the replies that ask the user to say more instead of answering
ClarificationKinds == {"which_company", "who_is_the_person", "missing_what"}

\* the replies that list items, one per line
ListingKinds ==
  {"companies_in", "contacts_from", "contacts_in", "companies", "industries", "matches"}

\* the number of rows the listing query of the request returned
MatchedRows == out.calls[1].rows


(***************************************************************************)
(* The claims.                                                             *)
(***************************************************************************)
\* C1: whatever the message and whichever collaborator fails (the store's
\* connect or execute raising, zsc raising), api_chat returns exactly one
\* reply and no exception leaves it; a failure of a collaborator is
\* reported as the reply "Server error: <message>".
C1_AlwaysOneReply ==
  Responded =>
    /\ ~out.escaped
    /\ out.reply.kind # "none"
    /\ out.error # <<>> => out.reply = Reply("server_error", 0, <<out.error>>, <<>>)
    /\ req.label = "raise" => out.error = ZscError
    /\ (\E i \in DOMAIN out.calls : ~out.calls[i].ok) => out.error = ExecuteError

\* the second lookup of a person_email request raised in execute after the
\* first had returned, and the reply is the server error
C1_Witness ==
  /\ Responded
  /\ Len(out.calls) = 2
  /\ out.calls[1].ok /\ ~out.calls[2].ok
  /\ out.reply = Reply("server_error", 0, <<ExecuteError>>, <<>>)

\* the entity the intent requires cannot be extracted from the message
EntityMissing ==
  \/ /\ Intent \in {"companies_by_industry", "contacts_by_industry"}
     /\ extract_industry(UserMsg) = NULL
  \/ /\ Intent = "contacts_by_company"
     /\ extract_company(NormMsg) = <<>>
  \/ /\ Intent \in {"person_email", "person_job_title", "person_phone", "person_industry"}
     /\ split_name(UserMsg) = <<NULL, NULL>>
  \/ /\ Intent = "search_name"
     /\ search_term(NormMsg) = <<>>

\* C2: for every intent that requires an entity, when the entity cannot be
\* extracted from the message the reply is a clarification and no statement
\* is executed on the store during the request.
C2_MissingEntityClarifies ==
  Served /\ EntityMissing =>
    /\ out.reply.kind \in ClarificationKinds
    /\ out.calls = <<>>

\* C3: when zsc classified the message with a confidence below 0.55, the
\* reply is a clarification (or the guidance of the fallback) and no
\* statement is executed on the store during the request.
C3_LowConfidenceClarifies ==
  Served /\ out.zsc > 0 /\ req.score < 55 =>
    /\ out.reply.kind \in ClarificationKinds \cup {"try"}
    /\ out.calls = <<>>

K_office_email == K_office \o <<" ">> \o K_email

\* C4: the missing-field rules are tried in the order public link, QR link,
\* office email, private email, email, ...: a missing_fields message that
\* contains "office email" is dispatched with the office_email condition,
\* not with the condition of the generic email rule.
C4_OfficeEmailBeforeEmail ==
  Served /\ Intent = "missing_fields" /\ In(K_office_email, NormMsg) =>
    /\ Len(out.calls) = 1
    /\ out.calls[1].fn = "db_missing"
    /\ out.calls[1].args = <<<<"office_email">>>>

\* C5: a listing whose query matched N > 20 rows shows exactly 20 lines and
\* prints the number N - 20 of the items that remain; a "more" message is
\* served from the remembered list: it is not classified and runs no query.
C5_PagedListing ==
  Served =>
    /\ out.reply.kind \in ListingKinds /\ MatchedRows > ShownItems =>
         /\ Len(out.reply.lines) = ShownItems
         /\ out.reply.n = MatchedRows - ShownItems
    /\ NormMsg = M_more =>
         /\ out.zsc = 0
         /\ out.calls = <<>>

\* C6: every listing reply has at most 20 item lines, whatever the number
\* of rows the store returned, and carries the number of the items left
\* out whenever the result has more than 20 items.
C6_AtMostTwentyLines ==
  Served /\ out.reply.kind \in ListingKinds =>
    /\ Len(out.reply.lines) <= ShownItems
    /\ MatchedRows > ShownItems => out.reply.n = MatchedRows - ShownItems

K_without == <<"w","i","t","h","o","u","t"," ">>

K_companies == <<"c","o","m","p","a","n","i","e","s">>

K_industries == <<"i","n","d","u","s","t","r","i","e","s">>

K_list_industries == <<"l","i","s","t"," ","i","n","d","u","s","t","r","i","e","s">>

\* the intent of the first deterministic rule of the claim that fires on
\* the normalised message t, "none" when none of them fires
RuleIntent(t) ==
  IF t = <<>> THEN "empty"
  ELSE IF startswith(t, K_find \o <<" ">>) \/ startswith(t, K_search \o <<" ">>)
  THEN "search_name"
  ELSE IF In(K_missing, t) \/ startswith(t, K_no \o <<" ">>) \/ startswith(t, K_without)
  THEN "missing_fields"
  ELSE IF t \in {M_list_companies, K_companies} THEN "list_companies"
  ELSE IF t \in {K_list_industries, K_industries} THEN "list_industries"
  ELSE "none"

\* C7: zsc is invoked only for the messages on which no deterministic rule
\* fires; when a rule fires, the intent is that of the first rule that
\* matches and zsc is not called.
C7_RulesShortCircuit ==
  Responded /\ RuleIntent(NormMsg) # "none" =>
    /\ out.zsc = 0
    /\ RuleIntent(NormMsg) # "empty" => Intent = RuleIntent(NormMsg)

\* C8: for an empty or whitespace-only message the reply is the fixed help
\* reply and neither the store nor zsc is invoked during the request.
C8_EmptyMessage ==
  Responded /\ UserMsg = <<>> =>
    /\ out.reply = Reply("ask_me_something", 0, <<>>, <<>>)
    /\ out.calls = <<>>
    /\ out.zsc = 0
    /\ out.error = <<>>

\* a message of white space only got the help reply
C8_Witness ==
  /\ Responded
  /\ req.message = M_blank
  /\ out.reply.kind = "ask_me_something"

\* C9: for intent person_email with an extracted name, with the office and
\* the private email the two lookups returned: an office/work qualifier
\* gives a reply with the office email only; a private/personal qualifier
\* (without an office/work one) gives a reply with the private email only;
\* without a qualifier the reply reports both when at least one of them is
\* populated and says that no email was found when none is.  With a store
\* whose only Rachel Sim has an office email only, "email of Rachel Sim"
\* is answered with a reply that names that office email.
C9_EmailQualifiers ==
  Served /\ Intent = "person_email" /\ split_name(UserMsg) # <<NULL, NULL>> =>
    /\ Len(out.calls) = 2
    /\ LET name    == split_name(UserMsg)
           office  == out.calls[1].value
           private == out.calls[2].value
           some    == office \notin {NULL, <<>>} \/ private \notin {NULL, <<>>}
       IN  /\ wants_office(NormMsg) =>
                out.reply = Reply("office_email", 0,
                                  <<name[1], name[2],
                                    IF office \in {NULL, <<>>} THEN NotFound ELSE office>>,
                                  <<>>)
           /\ ~wants_office(NormMsg) /\ wants_private(NormMsg) =>
                out.reply = Reply("private_email", 0,
                                  <<name[1], name[2],
                                    IF private \in {NULL, <<>>} THEN NotFound ELSE private>>,
                                  <<>>)
           /\ ~wants_office(NormMsg) /\ ~wants_private(NormMsg) /\ some =>
                /\ out.reply.kind = "both_emails"
                /\ out.reply.texts[1] = (IF office \in {NULL, <<>>} THEN Dash ELSE office)
                /\ out.reply.texts[2] = (IF private \in {NULL, <<>>} THEN Dash ELSE private)
           /\ ~wants_office(NormMsg) /\ ~wants_private(NormMsg) /\ ~some =>
                out.reply.kind = "no_email_found"
    /\ req.message = M_email_of_rachel_sim /\ inserted = 0 /\ store = FilledStore =>
         /\ out.reply.kind = "both_emails"
         /\ out.reply.texts[1] = T_office_mail

\* "email of Rachel Sim" on the store whose only Rachel Sim has an office
\* email only: the reply names the office email and no private email
C9_Witness ==
  /\ Served
  /\ req.message = M_email_of_rachel_sim
  /\ req.label = "person_email"
  /\ inserted = 0
  /\ out.reply = Reply("both_emails", 0, <<T_office_mail, Dash>>, <<>>)

\* C10: every label of INTENT_LABELS has its own branch in the routing: no
\* classified intent gets the fallback reply "Try: ...".
C10_DispatcherTotal ==
  Served /\ Intent \in Labels => out.reply.kind # "try"

K_qr == <<"q","r">>

\* the field key a missing_fields message names, by the keywords of the
\* keys of the conditions table; "none" when it names no known field
MissingKey(t) ==
  IF In(K_public, t) /\ In(K_link, t) THEN "publiclink"
  ELSE IF In(K_qr, t) THEN "qrlink"
  ELSE IF In(K_office, t) /\ In(K_email, t) THEN "office_email"
  ELSE IF In(K_private, t) /\ In(K_email, t) THEN "private_email"
  ELSE IF In(K_email, t) THEN "email"
  ELSE IF In(K_phone, t) \/ In(K_number, t) THEN "phone"
  ELSE IF In(K_job, t) \/ In(K_title, t) THEN "job"
  ELSE IF In(K_company, t) THEN "company"
  ELSE IF In(K_industry, t) THEN "industry"
  ELSE "none"

\* C11: the missing_fields branch is exhaustive over the keys of the
\* conditions table: the message that names a key (email, office_email,
\* private_email, phone, job, company, industry, publiclink, qrlink) makes
\* the handler query the store with that key's condition, and a request
\* that names no known field gets the reply "Missing what?" without a query.
C11_MissingFieldsExhaustive ==
  Served /\ Intent = "missing_fields" =>
    IF MissingKey(NormMsg) = "none"
    THEN out.reply.kind = "missing_what" /\ out.calls = <<>>
    ELSE /\ Len(out.calls) = 1
         /\ out.calls[1].fn = "db_missing"
         /\ out.calls[1].args = <<<<MissingKey(NormMsg)>>>>

\* C12: handling a chat message has no side effect on the contact store:
\* a step that answers a request to /api/chat, whatever its intent and its
\* outcome (a server error included), leaves the contact records as they
\* were, and the records change only by the insert of submit_contact, which
\* appends the submitted contact.
C12_ChatLeavesStore ==
  [][/\ (req' # req \/ out' # out) => store' = store
     /\ store' # store =>
          \E data \in SubmitBodies : store' = Append(store, InsertedRow(data))]_vars

\* a request whose query raised has been answered with the server error,
\* and the store holds the contacts it held at the start
C12_Witness ==
  /\ Responded
  /\ out.reply.kind = "server_error"
  /\ out.calls # <<>>
  /\ inserted = 0
  /\ store = FilledStore

\* the replies "No companies found under ...", "No contacts found for ..."
\* and "No contacts found in ..."
NotFoundKinds == {"no_companies_under", "no_contacts_for", "no_contacts_in"}

\* C13: for every intent that lists rows of the store (the listings by
\* company and by industry, list_companies, list_industries, the name
\* search, missing_fields), when the query succeeds and returns no row the
\* reply is a "No <thing> found" message: not an error, not a listing
\* without items and not a count of zero.
C13_NoRowsNotFound ==
  Served /\ Len(out.calls) = 1 /\ out.calls[1].fn # "db_person_field"
         /\ out.calls[1].rows = 0 =>
    out.reply.kind \in NotFoundKinds

\* C14: replies are deterministic: on the same store content, the same
\* message with the same classified intent always gets the same reply; in
\* particular a lookup of a person of whom the store holds several records
\* reports the value of the same record each time.  As a step on a store
\* that does not change: when a request is repeated, its reply is the same.
C14_Deterministic ==
  [][req' = req /\ store' = store /\ Served /\ Served' => out'.reply = out.reply]_vars

\* C15: every connection to the store opened while a request is handled is
\* closed when the reply of the request is returned, on every path, the
\* path on which the query raises and the reply is the server error
\* included: no request leaves a connection open.
C15_ConnectionsClosed ==
  Responded => out.leaked = 0

\* C16: in one person_email reply that reports the office and the private
\* email, both come from one record of the person as the store holds it,
\* also when a contact of the same name is submitted between the two
\* lookups of the handler and when the store holds several records of the
\* name.
C16_EmailsOfOneRecord ==
  Served /\ Intent = "person_email" /\ out.reply.kind = "both_emails" =>
    \E i \in DOMAIN store :
      /\ SqlEqLower(store[i].FirstName, split_name(UserMsg)[1])
      /\ SqlEqLower(store[i].LastName, split_name(UserMsg)[2])
      /\ out.reply.texts = <<Or(store[i].OfficeEmail, Dash), Or(store[i].PrivateEmail, Dash)>>

=============================================================================
